---- MODULE Spec2Model ----
(***************************************************************************)
(* Crackadilo (src/crackadilo.py): a sequential wrapper that validates its *)
(* prerequisites, runs a cached hashcat benchmark behind a spinner thread, *)
(* converts .cap captures to .22000 hash files, merges their first lines   *)
(* into combined.22000 and runs one hashcat session per attack profile.    *)
(*                                                                         *)
(* The model holds the file system the program reads and writes, the       *)
(* subprocesses it starts (with the two pipes each one writes to), the     *)
(* spinner thread, and the position of main().  A run that has exited may  *)
(* be followed by another run over the file system the first one left.     *)
(***************************************************************************)
EXTENDS Integers, Sequences, FiniteSets, TLC

(* ------------------------------------------------------------------ *)
(* Bounds of the model                                                 *)
(* ------------------------------------------------------------------ *)

\* Capacity of an OS pipe, in units of output.
PipeCap == 1

\* Stems of the files of the capture directory: <stem>.cap and <stem>.22000.
Stems == {"a", "b"}

\* First lines a .22000 file may hold: none (an empty file) and a hash with
\* white space around it.
Lines == {<< >>, <<" ", "h", " ">>}

\* The first line of a file that does not exist.
NoFile == <<"NoFile">>

\* A missing and an existing rules directory, and ./combined.22000.
NoDir == [exists |-> FALSE, rules |-> {}]

Dir(rules) == [exists |-> TRUE, rules |-> rules]

NoCombined == [exists |-> FALSE, lines |-> << >>]

Combined(lines) == [exists |-> TRUE, lines |-> lines]

NoRule == "False"

(* ------------------------------------------------------------------ *)
(* Program constants                                                   *)
(* ------------------------------------------------------------------ *)

WORDLISTS ==
  << [title |-> "Test (rockyou-65)", session |-> "test",
      path |-> "rockyou-65.txt.gz", rule |-> NoRule],
     [title |-> "Ultra fast (rockyou-65 with rules)", session |-> "ultra_fast",
      path |-> "rockyou-65.txt.gz", rule |-> "best66.rule"],
     [title |-> "Fast (hk_hlm_founds)", session |-> "fast",
      path |-> "hk_hlm_founds.txt.gz", rule |-> NoRule],
     [title |-> "Medium (hashkiller24)", session |-> "medium",
      path |-> "hashkiller24.txt.gz", rule |-> NoRule],
     [title |-> "Slow (weakpass_4)", session |-> "slow",
      path |-> "weakpass_4.txt.gz", rule |-> NoRule],
     [title |-> "Slower (hk_hlm_founds with rules)", session |-> "slower",
      path |-> "hk_hlm_founds.txt.gz", rule |-> "best66.rule"],
     [title |-> "Slowest (hashkiller24 with rules)", session |-> "slowest",
      path |-> "hashkiller24.txt.gz", rule |-> "best66.rule"] >>

NumProfiles == Len(WORDLISTS)

WordlistPaths == {WORDLISTS[i].path : i \in 1..NumProfiles}

RuleNames == {WORDLISTS[i].rule : i \in 1..NumProfiles} \ {NoRule}

RULES_DIR == "/usr/share/hashcat/rules/"

ALT_RULES_DIR == "/usr/share/doc/hashcat/rules/"

RuleDirs == {RULES_DIR, ALT_RULES_DIR}

Tools == {"hashcat", "hcxdumptool", "hcxpcapngtool"}

\* Exit codes a subprocess chooses between when it finishes by itself.
RcChoices == {0, 1}

\* The shell's exit code for a command it cannot find.
RcNotFound == 127

\* The return code of a subprocess ended by terminate() (SIGTERM).
RcTerminated == -15

Streams == {"out", "err"}

(* ------------------------------------------------------------------ *)
(* State                                                               *)
(* ------------------------------------------------------------------ *)

VARIABLES
  \* the environment, which the program only reads
  installed,        \* the tools found on PATH
  wordlistFiles,    \* the files of the wordlists directory
  ruleDirs,         \* per rules directory: whether it exists, and its rule files
  capFiles,         \* stems of the .cap files of the capture directory
  cwdIsCaptureDir,  \* the working directory is the capture directory
  \* files the program writes
  hashFiles,        \* stem -> first line of <stem>.22000, for the files that exist
  cacheFile,        \* benchmark_result.txt: NoFile, or its first line
  combinedFile,     \* ./combined.22000: whether it exists, and its lines
  \* main() and run_hashcat_benchmark()
  pc,               \* position in the program
  exitCode,         \* code passed to exit(), -1 while running
  rules_dir,        \* the rules directory chosen by validation
  todo,             \* .cap files the conversion loop has not reached yet
  cap_file,         \* the .cap file the conversion loop is at
  idx,              \* index into WORDLISTS of the session loop
  stop_spinner,     \* the threading.Event
  spinner_thread,   \* "None", "unstarted", "alive" or "finished"
  procs,            \* subprocess id -> its state, for those not yet waited for
  output_lines,     \* the benchmark's stdout, as communicate() returned it
  returncode,       \* process.returncode of the last Popen: {} is None
  message,          \* what the program printed last
  \* records of what happened, read only by the properties
  phases,           \* the phases entered in this run, in order
  established,      \* files whose existence this run checked or created
  convFailed,       \* a conversion of this run ended with a non-zero code
  launched,         \* indices of the cracking sessions started in this run
  convLaunched,     \* per stem, how often this run passed it to the converter
  siblings,         \* stems whose .22000 file existed when this run started
  cacheAtCall,      \* cacheFile when run_hashcat_benchmark was called
  benchStarts,      \* benchmark subprocesses started in this run
  benchDone,        \* successful benchmark completions over all runs, up to 2
  exitAt,           \* the place of the exit() that ended the run
  prevConvOk        \* there was a run before this one, and none of its conversions failed

env == <<installed, wordlistFiles, ruleDirs, capFiles, cwdIsCaptureDir>>

files == <<hashFiles, cacheFile, combinedFile>>

spin == <<stop_spinner, spinner_thread>>

loops == <<rules_dir, todo, cap_file, idx>>

bench == <<output_lines, cacheAtCall, benchStarts, benchDone>>

hist ==
  <<phases, established, convFailed, launched, convLaunched, siblings, prevConvOk>>

io == <<returncode, message>>

vars == <<env, files, pc, exitCode, spin, loops, procs, io, bench, hist, exitAt>>

(* ------------------------------------------------------------------ *)
(* Pure helpers                                                        *)
(* ------------------------------------------------------------------ *)

IsSpace(c) == c = " "

RECURSIVE LStrip(_)
LStrip(s) == IF s # << >> /\ IsSpace(Head(s)) THEN LStrip(Tail(s)) ELSE s

RECURSIVE RStrip(_)
RStrip(s) ==
  IF s # << >> /\ IsSpace(s[Len(s)]) THEN RStrip(SubSeq(s, 1, Len(s) - 1)) ELSE s

\* str.strip()
Strip(s) == RStrip(LStrip(s))

\* Path.exists() on a rule file.
RuleExists(dir, rule) == ruleDirs[dir].exists /\ rule \in ruleDirs[dir].rules

\* The names glob("*.22000") yields in the capture directory: the per-capture
\* hash files and, when the program runs inside that directory, combined.22000.
Glob22000 ==
  DOMAIN hashFiles
    \cup (IF cwdIsCaptureDir /\ combinedFile.exists THEN {"combined"} ELSE {})

\* f.readline() on a file of the capture directory, without its line end.
FirstLine(name) ==
  IF name = "combined"
    THEN (IF combinedFile.lines = << >> THEN << >> ELSE Head(combinedFile.lines))
    ELSE hashFiles[name]

\* All orders in which a directory listing may yield the names of S.
Orders(S) ==
  {q \in [1..Cardinality(S) -> S] : \A x \in S : \E k \in DOMAIN q : q[k] = x}

CombinedPath == <<"cwd", "combined.22000">>

\* The command line of the session for WORDLISTS[k]: its session name and the
\* files it names.
Command(k) ==
  [session |-> WORDLISTS[k].session,
   files |-> {CombinedPath, <<"wordlists", WORDLISTS[k].path>>}
               \cup (IF WORDLISTS[k].rule = NoRule THEN {}
                     ELSE {<<rules_dir, WORDLISTS[k].rule>>})]

(* ------------------------------------------------------------------ *)
(* Initial state                                                       *)
(* ------------------------------------------------------------------ *)

\* A distribution ships one of the two rules directories; the program reads
\* the alternative one only when the default one is missing.
RuleDirStates ==
  {d \in [RuleDirs -> {NoDir} \cup {Dir(r) : r \in SUBSET RuleNames}] :
     ~d[RULES_DIR].exists \/ ~d[ALT_RULES_DIR].exists}

\* The wordlists directory holds every wordlist, or lacks one of them.
WordlistStates == {WordlistPaths} \cup {WordlistPaths \ {p} : p \in WordlistPaths}

HashFileStates == UNION {[S -> Lines] : S \in SUBSET Stems}

CachedMessage == <<"Your", "gpu", "can perform:", "1 kH/s">>

CacheStates == {NoFile, << >>, CachedMessage}

\* Every combination of prerequisites and of benchmark cache, over a capture
\* directory with one capture to convert and one hash file.
PrerequisitesVary ==
  /\ installed \in SUBSET Tools
  /\ wordlistFiles \in WordlistStates
  /\ ruleDirs \in RuleDirStates
  /\ cacheFile \in CacheStates
  /\ capFiles = {"a"}
  /\ hashFiles = ("b" :> <<" ", "h", " ">>)
  /\ cwdIsCaptureDir = FALSE

\* Every capture directory, as the working directory or not, with or without
\* the converter, over complete prerequisites and a cached benchmark.
CapturesVary ==
  /\ installed \in {Tools, Tools \ {"hcxpcapngtool"}}
  /\ wordlistFiles = WordlistPaths
  /\ ruleDirs = [d \in RuleDirs |-> IF d = RULES_DIR THEN Dir(RuleNames) ELSE NoDir]
  /\ cacheFile = CachedMessage
  /\ capFiles \in SUBSET Stems
  /\ hashFiles \in HashFileStates
  /\ cwdIsCaptureDir \in BOOLEAN

Init ==
  /\ PrerequisitesVary \/ CapturesVary
  /\ combinedFile = NoCombined
  /\ pc = "start"
  /\ exitCode = -1
  /\ exitAt = "none"
  /\ rules_dir = RULES_DIR
  /\ todo = {}
  /\ cap_file = "none"
  /\ idx = 1
  /\ stop_spinner = FALSE
  /\ spinner_thread = "None"
  /\ procs = << >>
  /\ returncode = {}
  /\ message = "none"
  /\ output_lines = << >>
  /\ cacheAtCall = <<"not called">>
  /\ benchStarts = 0
  /\ benchDone = 0
  /\ phases = << >>
  /\ established = {}
  /\ convFailed = FALSE
  /\ launched = << >>
  /\ convLaunched = [c \in Stems |-> 0]
  /\ siblings = DOMAIN hashFiles
  /\ prevConvOk = FALSE

(* ------------------------------------------------------------------ *)
(* exit()                                                              *)
(* ------------------------------------------------------------------ *)

Exit(code, at) ==
  /\ pc' = "exited"
  /\ exitCode' = code
  /\ exitAt' = at

Goto(label) ==
  /\ pc' = label
  /\ UNCHANGED <<exitCode, exitAt>>

(* ------------------------------------------------------------------ *)
(* main(): validation                                                  *)
(* ------------------------------------------------------------------ *)

\* Lines 174-180.
CheckHashcat ==
  /\ pc = "start"
  /\ phases' = Append(phases, "validation")
  /\ IF "hashcat" \in installed
       THEN Goto("chk_hcxdumptool") /\ message' = "Hashcat is installed."
       ELSE Exit(1, "validation") /\ message' = "Hashcat is not installed."
  /\ UNCHANGED <<env, files, spin, loops, procs, returncode, bench, established,
                 convFailed, launched, convLaunched, siblings, prevConvOk>>

\* Lines 183-189.
CheckHcxdumptool ==
  /\ pc = "chk_hcxdumptool"
  /\ IF "hcxdumptool" \in installed
       THEN Goto("chk_captures") /\ message' = "The hcxdumptool is installed."
       ELSE Exit(1, "validation") /\ message' = "The hcxdumptool is not installed."
  /\ UNCHANGED <<env, files, spin, loops, procs, returncode, bench, hist>>

\* Lines 192-204; click has checked that the capture directory exists (lines
\* 159-162), so the branch of line 203 is not taken.
CheckCaptureFiles ==
  /\ pc = "chk_captures"
  /\ IF capFiles # {} \/ Glob22000 # {}
       THEN Goto("chk_wordlists") /\ message' = "Capture files found."
       ELSE Exit(0, "validation") /\ message' = "No .cap or .22000 files found."
  /\ UNCHANGED <<env, files, spin, loops, procs, returncode, bench, hist>>

\* Lines 207-218; click has checked that the wordlists directory exists (lines
\* 163-166).
CheckWordlists ==
  /\ pc = "chk_wordlists"
  /\ IF \E k \in 1..NumProfiles : WORDLISTS[k].path \notin wordlistFiles
       THEN /\ Exit(1, "validation")
            /\ message' = "wordlist not found."
            /\ UNCHANGED established
       ELSE /\ Goto("chk_rules")
            /\ message' = "All wordlists found."
            /\ established' = established \cup
                 {<<"wordlists", WORDLISTS[k].path>> : k \in 1..NumProfiles}
  /\ UNCHANGED <<env, files, spin, loops, procs, returncode, bench, phases,
                 convFailed, launched, convLaunched, siblings, prevConvOk>>

\* Lines 221-231: the rule files are checked only when the chosen directory
\* exists.
CheckRules ==
  /\ pc = "chk_rules"
  /\ LET dir == IF ruleDirs[RULES_DIR].exists THEN RULES_DIR ELSE ALT_RULES_DIR
         ruled == {k \in 1..NumProfiles : WORDLISTS[k].rule # NoRule}
     IN /\ rules_dir' = dir
        /\ IF ruleDirs[dir].exists
             THEN IF \E k \in ruled : ~RuleExists(dir, WORDLISTS[k].rule)
                    THEN /\ Exit(1, "validation")
                         /\ message' = "rule not found."
                         /\ UNCHANGED established
                    ELSE /\ Goto("benchmark")
                         /\ message' = "All rules found."
                         /\ established' = established \cup
                              {<<dir, WORDLISTS[k].rule>> : k \in ruled}
             ELSE /\ Goto("benchmark")
                  /\ UNCHANGED <<established, message>>
  /\ UNCHANGED <<env, files, spin, todo, cap_file, idx, procs, returncode, bench,
                 phases, convFailed, launched, convLaunched, siblings, prevConvOk>>

(* ------------------------------------------------------------------ *)
(* Subprocesses                                                        *)
(* ------------------------------------------------------------------ *)

BenchId == <<"bench", "hashcat">>

ConvId(c) == <<"conv", c>>

CrackId(k) == <<"crack", WORDLISTS[k].session>>

ProcIds ==
  {BenchId} \cup {ConvId(c) : c \in Stems} \cup {CrackId(k) : k \in 1..NumProfiles}

\* A subprocess just started by Popen with stdout=PIPE and stderr=PIPE: both
\* pipes are empty and no write is pending.
NewProc ==
  [st |-> "running", rc |-> 0, writing |-> "none", pipe |-> [s \in Streams |-> 0]]

Running(id) == id \in DOMAIN procs /\ procs[id].st = "running"

\* The subprocesses left when the program has waited for one and dropped it.
Reaped(id) == [q \in DOMAIN procs \ {id} |-> procs[q]]

\* The shell that cannot find the converter writes one message to stderr.
MayWrite(id, s) ==
  \/ id[1] # "conv"
  \/ "hcxpcapngtool" \in installed
  \/ s = "err" /\ procs[id].pipe[s] = 0

\* A subprocess writes one unit to a pipe; when the pipe is full the write
\* blocks until the pipe is read.
ProcWrite(id, s) ==
  /\ Running(id)
  /\ procs[id].writing = "none"
  /\ MayWrite(id, s)
  /\ procs' = IF procs[id].pipe[s] < PipeCap
                THEN [procs EXCEPT ![id].pipe[s] = @ + 1]
                ELSE [procs EXCEPT ![id].writing = s]
  /\ UNCHANGED <<env, files, pc, exitCode, exitAt, spin, loops, io, bench, hist>>

\* A blocked write goes through once the pipe has room.
ProcResume(id, s) ==
  /\ Running(id)
  /\ procs[id].writing = s
  /\ procs[id].pipe[s] < PipeCap
  /\ procs' = [procs EXCEPT ![id].pipe[s] = @ + 1, ![id].writing = "none"]
  /\ UNCHANGED <<env, files, pc, exitCode, exitAt, spin, loops, io, bench, hist>>

\* hashcat finishes, unless it is blocked in a write.
HashcatExit(id) ==
  /\ id[1] \in {"bench", "crack"}
  /\ Running(id)
  /\ procs[id].writing = "none"
  /\ \E rc \in RcChoices : procs' = [procs EXCEPT ![id].st = "exited", ![id].rc = rc]
  /\ UNCHANGED <<env, files, pc, exitCode, exitAt, spin, loops, io, bench, hist>>

\* The shell running "hcxpcapngtool -o <stem>.22000 <stem>.cap" finishes: with
\* 127 when the tool is not installed, else with the tool's code; the tool may
\* or may not have written the hash file, whatever its code.
ConverterExit(c) ==
  /\ Running(ConvId(c))
  /\ procs[ConvId(c)].writing = "none"
  /\ IF "hcxpcapngtool" \in installed
       THEN \E rc \in RcChoices, out \in {NoFile} \cup Lines :
              /\ procs' = [procs EXCEPT ![ConvId(c)].st = "exited", ![ConvId(c)].rc = rc]
              /\ hashFiles' = IF out = NoFile THEN hashFiles
                              ELSE (c :> out) @@ hashFiles
       ELSE /\ procs' = [procs EXCEPT ![ConvId(c)].st = "exited",
                                      ![ConvId(c)].rc = RcNotFound]
            /\ UNCHANGED hashFiles
  /\ UNCHANGED <<env, cacheFile, combinedFile, pc, exitCode, exitAt, spin, loops,
                 io, bench, hist>>

(* ------------------------------------------------------------------ *)
(* loading_spinner(), the spinner thread                               *)
(* ------------------------------------------------------------------ *)

\* While the event is not set the thread only writes to the terminal; once it
\* is set both loops end, the line is cleared and the thread ends.
SpinnerStop ==
  /\ spinner_thread = "alive"
  /\ stop_spinner
  /\ spinner_thread' = "finished"
  /\ UNCHANGED <<env, files, pc, exitCode, exitAt, stop_spinner, loops, procs, io,
                 bench, hist>>

(* ------------------------------------------------------------------ *)
(* run_hashcat_benchmark()                                             *)
(* ------------------------------------------------------------------ *)

\* What the benchmark may print to stdout, each line a sequence of words.
BenchOutputs ==
  { << >>,
    << <<"Device", ":", "gpu">>, <<"Speed", ":", "1 kH/s">> >>,
    << <<"Device">> >> }

Has(line, word) == \E k \in DOMAIN line : line[k] = word

\* line.split(":")[1] raises IndexError when the line holds no colon.
SplitRaises(line) == ~Has(line, ":")

\* line.split(":")[1], stripped: the word after the first colon.
AfterColon(line) ==
  LET k == CHOOSE j \in DOMAIN line :
             line[j] = ":" /\ \A m \in 1..(j - 1) : line[m] # ":"
  IN IF k < Len(line) THEN line[k + 1] ELSE ""

ParseRaises(lines) ==
  \E k \in DOMAIN lines :
    (Has(lines[k], "Device") \/ Has(lines[k], "Speed")) /\ SplitRaises(lines[k])

RECURSIVE ParseDevice(_, _)
ParseDevice(lines, device) ==
  IF lines = << >> THEN device
  ELSE ParseDevice(Tail(lines),
                   IF Has(Head(lines), "Device") THEN AfterColon(Head(lines))
                   ELSE device)

RECURSIVE ParseResult(_, _)
ParseResult(lines, result) ==
  IF lines = << >> THEN result
  ELSE ParseResult(Tail(lines),
                   IF ~Has(Head(lines), "Device") /\ Has(Head(lines), "Speed")
                     THEN AfterColon(Head(lines))
                     ELSE result)

DisplayMessage(lines) ==
  <<"Your", ParseDevice(lines, "Unknown Device"), "can perform:",
    ParseResult(lines, "Unknown hashes per second")>>

\* Lines 84-89: a cache file whose first line is not empty is printed and the
\* function returns; otherwise it goes on to run the benchmark.
BenchCacheCheck ==
  /\ pc = "benchmark"
  /\ phases' = Append(phases, "benchmark")
  /\ cacheAtCall' = cacheFile
  /\ IF cacheFile # NoFile /\ cacheFile # << >>
       THEN Goto("convert") /\ message' = "cached benchmark result"
       ELSE Goto("b_spinner") /\ UNCHANGED message
  /\ UNCHANGED <<env, files, spin, loops, procs, returncode, output_lines,
                 benchStarts, benchDone, established, convFailed, launched,
                 convLaunched, siblings, prevConvOk>>

\* Lines 92-93; Thread.start() raises when no thread can be started.
BenchStartSpinner ==
  /\ pc = "b_spinner"
  /\ \/ spinner_thread' = "alive" /\ Goto("b_popen")
     \/ spinner_thread' = "unstarted" /\ Goto("b_except")
  /\ UNCHANGED <<env, files, stop_spinner, loops, procs, io, bench, hist>>

\* Lines 96-102; Popen raises when the process cannot be started.
BenchPopen ==
  /\ pc = "b_popen"
  /\ \/ /\ procs' = (BenchId :> NewProc) @@ procs
        /\ benchStarts' = benchStarts + 1
        /\ Goto("b_communicate")
     \/ Goto("b_except") /\ UNCHANGED <<procs, benchStarts>>
  /\ UNCHANGED <<env, files, spin, loops, io, output_lines, cacheAtCall,
                 benchDone, hist>>

\* Line 105: communicate() reads both pipes while the process runs.
BenchCommunicateRead ==
  /\ pc = "b_communicate"
  /\ \E s \in Streams : procs[BenchId].pipe[s] > 0
  /\ procs' = [procs EXCEPT ![BenchId].pipe = [s \in Streams |-> 0]]
  /\ UNCHANGED <<env, files, pc, exitCode, exitAt, spin, loops, io, bench, hist>>

\* Lines 105-106: communicate() returns at the end of both streams, after the
\* process has finished.
BenchCommunicateReturn ==
  /\ pc = "b_communicate"
  /\ procs[BenchId].st = "exited"
  /\ \A s \in Streams : procs[BenchId].pipe[s] = 0
  /\ output_lines' \in BenchOutputs
  /\ returncode' = {procs[BenchId].rc}
  /\ Goto("b_stop")
  /\ UNCHANGED <<env, files, spin, loops, procs, message, cacheAtCall,
                 benchStarts, benchDone, hist>>

\* Line 105: communicate() raises, at any point.
BenchCommunicateRaises ==
  /\ pc = "b_communicate"
  /\ Goto("b_except")
  /\ UNCHANGED <<env, files, spin, loops, procs, io, bench, hist>>

\* Line 109.
BenchStopSpinner ==
  /\ pc = "b_stop"
  /\ stop_spinner' = TRUE
  /\ Goto("b_join")
  /\ UNCHANGED <<env, files, spinner_thread, loops, procs, io, bench, hist>>

\* Lines 110-111: join() returns once the thread has ended.
BenchJoinSpinner ==
  /\ pc = "b_join"
  /\ spinner_thread # "alive"
  /\ Goto("b_result")
  /\ UNCHANGED <<env, files, spin, loops, procs, io, bench, hist>>

\* Lines 113-142: a non-zero return code is reported and the function returns;
\* otherwise the output is parsed, shown and written to the cache file.
BenchResult ==
  /\ pc = "b_result"
  /\ IF returncode # {0}
       THEN /\ message' = "Error executing hashcat."
            /\ Goto("b_finally")
            /\ UNCHANGED <<cacheFile, benchDone>>
       ELSE /\ benchDone' = IF benchDone < 2 THEN benchDone + 1 ELSE benchDone
            /\ IF ParseRaises(output_lines)
                 THEN Goto("b_except") /\ UNCHANGED <<cacheFile, message>>
                 ELSE /\ Goto("b_finally")
                      /\ message' = "benchmark result"
                      /\ cacheFile' = DisplayMessage(output_lines)
  /\ UNCHANGED <<env, hashFiles, combinedFile, spin, loops, procs, returncode,
                 output_lines, cacheAtCall, benchStarts, hist>>

\* Lines 144-146.
BenchExcept ==
  /\ pc = "b_except"
  /\ message' = "An unexpected error occurred."
  /\ Goto("b_finally")
  /\ UNCHANGED <<env, files, spin, loops, procs, returncode, bench, hist>>

\* Line 149.
BenchFinallyStop ==
  /\ pc = "b_finally"
  /\ stop_spinner' = TRUE
  /\ Goto("b_finally_join")
  /\ UNCHANGED <<env, files, spinner_thread, loops, procs, io, bench, hist>>

\* BenchFinallyJoin without the join of line 151: the function returns as soon
\* as the event is set, without waiting for the thread to end.
BenchFinallyNoJoin ==
  /\ pc = "b_finally_join"
  /\ IF Running(BenchId)
       THEN returncode' = {RcTerminated}
       ELSE UNCHANGED returncode
  /\ procs' = Reaped(BenchId)
  /\ output_lines' = << >>
  /\ Goto("convert")
  /\ UNCHANGED <<env, files, spin, loops, message, cacheAtCall, benchStarts,
                 benchDone, hist>>

\* Lines 150-155: the thread is joined, a process still running is terminated
\* and waited for, and the function returns.
BenchFinallyJoin ==
  /\ pc = "b_finally_join"
  /\ spinner_thread # "alive"
  /\ IF Running(BenchId)
       THEN returncode' = {RcTerminated}
       ELSE UNCHANGED returncode
  /\ procs' = Reaped(BenchId)
  /\ output_lines' = << >>
  /\ Goto("convert")
  /\ UNCHANGED <<env, files, spin, loops, message, cacheAtCall, benchStarts,
                 benchDone, hist>>

(* ------------------------------------------------------------------ *)
(* main(): conversion and merge                                        *)
(* ------------------------------------------------------------------ *)

\* Line 245: the .cap files of the capture directory, listed once.
ConvertBegin ==
  /\ pc = "convert"
  /\ phases' = Append(phases, "combine")
  /\ todo' = capFiles
  /\ Goto("conv_loop")
  /\ UNCHANGED <<env, files, spin, rules_dir, cap_file, idx, procs, io, bench,
                 established, convFailed, launched, convLaunched, siblings,
                 prevConvOk>>

\* ConvertNext without the test of line 247: every .cap file is converted,
\* whether its .22000 file exists or not.
ConvertNextNoSkip ==
  /\ pc = "conv_loop"
  /\ \E c \in todo :
       /\ todo' = todo \ {c}
       /\ cap_file' = c
       /\ procs' = (ConvId(c) :> NewProc) @@ procs
       /\ returncode' = {}
       /\ message' = "Converting to .22000..."
       /\ convLaunched' = [convLaunched EXCEPT ![c] = @ + 1]
       /\ Goto("conv_wait")
  /\ UNCHANGED <<env, files, spin, rules_dir, idx, bench, phases, established,
                 convFailed, launched, siblings, prevConvOk>>

\* Lines 245-252 and 258-259: the next .cap file, in the listing's order; the
\* converter is started for it unless its .22000 file exists.
ConvertNext ==
  /\ pc = "conv_loop"
  /\ \E c \in todo :
       /\ todo' = todo \ {c}
       /\ cap_file' = c
       /\ IF c \notin DOMAIN hashFiles
            THEN /\ procs' = (ConvId(c) :> NewProc) @@ procs
                 /\ returncode' = {}
                 /\ message' = "Converting to .22000..."
                 /\ convLaunched' = [convLaunched EXCEPT ![c] = @ + 1]
                 /\ Goto("conv_wait")
            ELSE /\ message' = "already exists."
                 /\ UNCHANGED <<procs, returncode, convLaunched, pc, exitCode, exitAt>>
  /\ UNCHANGED <<env, files, spin, rules_dir, idx, bench, phases, established,
                 convFailed, launched, siblings, prevConvOk>>

\* ConvertWait with an exit(1) after the failure message of line 257.
ConvertWaitExits ==
  /\ pc = "conv_wait"
  /\ procs[ConvId(cap_file)].st = "exited"
  /\ returncode' = {procs[ConvId(cap_file)].rc}
  /\ IF procs[ConvId(cap_file)].rc = 0
       THEN /\ message' = "Converted to .22000."
            /\ Goto("conv_loop")
            /\ UNCHANGED convFailed
       ELSE /\ message' = "Failed to convert."
            /\ convFailed' = TRUE
            /\ Exit(1, "conversion")
  /\ procs' = Reaped(ConvId(cap_file))
  /\ UNCHANGED <<env, files, spin, loops, bench, phases, established, launched,
                 convLaunched, siblings, prevConvOk>>

\* Lines 253-257: wait() returns when the converter has finished; neither of
\* its pipes is read.
ConvertWait ==
  /\ pc = "conv_wait"
  /\ procs[ConvId(cap_file)].st = "exited"
  /\ returncode' = {procs[ConvId(cap_file)].rc}
  /\ IF procs[ConvId(cap_file)].rc = 0
       THEN message' = "Converted to .22000." /\ UNCHANGED convFailed
       ELSE message' = "Failed to convert." /\ convFailed' = TRUE
  /\ procs' = Reaped(ConvId(cap_file))
  /\ Goto("conv_loop")
  /\ UNCHANGED <<env, files, spin, loops, bench, phases, established, launched,
                 convLaunched, siblings, prevConvOk>>

\* Lines 261-277: the first line of every .22000 file of the capture
\* directory, stripped, in the listing's order; none at all ends the run,
\* otherwise they are written to combined.22000.
Merge ==
  /\ pc = "conv_loop"
  /\ todo = {}
  /\ \E pmkid_files \in Orders(Glob22000) :
       LET hashes == [k \in DOMAIN pmkid_files |-> Strip(FirstLine(pmkid_files[k]))]
       IN IF Len(hashes) = 0
            THEN /\ Exit(0, "merge")
                 /\ message' = "No hashes found in the .22000 files."
                 /\ UNCHANGED <<combinedFile, established>>
            ELSE /\ combinedFile' = Combined(hashes)
                 /\ established' = established \cup {CombinedPath}
                 /\ message' = "All capture files combined."
                 /\ Goto("crack")
  /\ UNCHANGED <<env, hashFiles, cacheFile, spin, loops, procs, returncode, bench,
                 phases, convFailed, launched, convLaunched, siblings, prevConvOk>>

(* ------------------------------------------------------------------ *)
(* main(): cracking sessions                                           *)
(* ------------------------------------------------------------------ *)

\* Lines 292-316: the next profile's command is built and started.
CrackLaunch ==
  /\ pc = "crack"
  /\ idx <= NumProfiles
  /\ procs' = (CrackId(idx) :> NewProc) @@ procs
  /\ returncode' = {}
  /\ message' = "Staring new cracking session"
  /\ launched' = Append(launched, idx)
  /\ phases' = IF idx = 1 THEN Append(phases, "crack") ELSE phases
  /\ Goto("crack_read")
  /\ UNCHANGED <<env, files, spin, loops, bench, established, convFailed,
                 convLaunched, siblings, prevConvOk>>

\* Lines 317-318: a line of the session's stdout is read and printed.
CrackReadLine ==
  /\ pc = "crack_read"
  /\ procs[CrackId(idx)].pipe["out"] > 0
  /\ procs' = [procs EXCEPT ![CrackId(idx)].pipe["out"] = @ - 1]
  /\ message' = "line"
  /\ UNCHANGED <<env, files, pc, exitCode, exitAt, spin, loops, returncode, bench,
                 hist>>

\* CrackFinish without the wait of lines 317-320: the loop goes on to the next
\* profile while the session it started may still run.
CrackFinishNoWait ==
  /\ pc = "crack_read"
  /\ returncode' = {}
  /\ message' = "Cracking session completed."
  /\ idx' = idx + 1
  /\ Goto("crack")
  /\ UNCHANGED <<env, files, spin, rules_dir, todo, cap_file, procs, bench, hist>>

\* Lines 317-321: the loop ends at the end of the session's stdout, which the
\* session closes when it finishes, and wait() returns; stderr is never read
\* and the return code is not looked at.
CrackFinish ==
  /\ pc = "crack_read"
  /\ procs[CrackId(idx)].st = "exited"
  /\ procs[CrackId(idx)].pipe["out"] = 0
  /\ returncode' = {procs[CrackId(idx)].rc}
  /\ message' = "Cracking session completed."
  /\ procs' = Reaped(CrackId(idx))
  /\ idx' = idx + 1
  /\ Goto("crack")
  /\ UNCHANGED <<env, files, spin, rules_dir, todo, cap_file, bench, hist>>

\* Line 324.
CrackDone ==
  /\ pc = "crack"
  /\ idx > NumProfiles
  /\ Exit(0, "end")
  /\ UNCHANGED <<env, files, spin, loops, procs, io, bench, hist>>

(* ------------------------------------------------------------------ *)
(* The operator runs the program again                                 *)
(* ------------------------------------------------------------------ *)

StartRun ==
  /\ pc = "exited"
  /\ pc' = "start"
  /\ exitCode' = -1
  /\ exitAt' = "none"
  /\ rules_dir' = RULES_DIR
  /\ todo' = {}
  /\ cap_file' = "none"
  /\ idx' = 1
  /\ stop_spinner' = FALSE
  /\ spinner_thread' = "None"
  /\ procs' = << >>
  /\ returncode' = {}
  /\ message' = "none"
  /\ output_lines' = << >>
  /\ cacheAtCall' = <<"not called">>
  /\ benchStarts' = 0
  /\ phases' = << >>
  /\ established' = {}
  /\ convFailed' = FALSE
  /\ launched' = << >>
  /\ convLaunched' = [c \in Stems |-> 0]
  /\ siblings' = DOMAIN hashFiles
  /\ prevConvOk' = ~convFailed
  /\ UNCHANGED <<env, files, benchDone>>

(* ------------------------------------------------------------------ *)
(* Specification                                                       *)
(* ------------------------------------------------------------------ *)

Next ==
  \/ CheckHashcat
  \/ CheckHcxdumptool
  \/ CheckCaptureFiles
  \/ CheckWordlists
  \/ CheckRules
  \/ BenchCacheCheck
  \/ BenchStartSpinner
  \/ BenchPopen
  \/ BenchCommunicateRead
  \/ BenchCommunicateReturn
  \/ BenchCommunicateRaises
  \/ BenchStopSpinner
  \/ BenchJoinSpinner
  \/ BenchResult
  \/ BenchExcept
  \/ BenchFinallyStop
  \/ BenchFinallyJoin
  \/ SpinnerStop
  \/ ConvertBegin
  \/ ConvertNext
  \/ ConvertWait
  \/ Merge
  \/ CrackLaunch
  \/ CrackReadLine
  \/ CrackFinish
  \/ CrackDone
  \/ StartRun
  \/ \E id \in ProcIds, s \in Streams : ProcWrite(id, s)
  \/ \E id \in ProcIds, s \in Streams : ProcResume(id, s)
  \/ \E id \in ProcIds : HashcatExit(id)
  \/ \E c \in Stems : ConverterExit(c)

Spec == Init /\ [][Next]_vars

(* ------------------------------------------------------------------ *)
(* Properties                                                          *)
(* ------------------------------------------------------------------ *)

\* The program has got a non-zero return code from a subprocess that finished
\* by itself.
SawFailure == returncode \notin {{}, {0}, {RcTerminated}}

BenchPcs ==
  {"b_spinner", "b_popen", "b_communicate", "b_stop", "b_join", "b_result",
   "b_except", "b_finally", "b_finally_join"}

AfterBenchPcs == {"convert", "conv_loop", "conv_wait", "crack", "crack_read"}

AfterMergePcs == {"crack", "crack_read"}

SubprocessLaunched ==
  \/ procs # << >>
  \/ benchStarts > 0
  \/ launched # << >>
  \/ \E c \in Stems : convLaunched[c] > 0

C2_FixedOrder ==
  /\ Len(launched) <= NumProfiles
  /\ \A k \in DOMAIN launched : launched[k] = k
  /\ \A k \in 1..NumProfiles :
       CrackId(k) \in DOMAIN procs => (k = Len(launched) /\ k = idx /\ pc = "crack_read")
  /\ pc = "crack" => Len(launched) = idx - 1
  /\ pc = "crack_read" => (Len(launched) = idx /\ CrackId(idx) \in DOMAIN procs)
  /\ exitAt = "end" => Len(launched) = NumProfiles

\* C2, witness: the run has exited after the loop, with all seven sessions
\* started in order.
C2_AllSessionsRun ==
  /\ pc = "exited"
  /\ exitAt = "end"
  /\ launched = <<1, 2, 3, 4, 5, 6, 7>>

\* C3, as it is written: a subprocess is started only when hashcat and the
\* converter the program runs (hcxpcapngtool) are installed, the capture
\* directory holds a .cap or .22000 file and every wordlist exists; a missing
\* prerequisite ends the run in validation, with code 1 for a tool or a
\* wordlist and 0 for no capture file; the phases come in their order, each
\* at most once.
C3_ValidatedBeforeLaunch ==
  /\ SubprocessLaunched =>
       /\ {"hashcat", "hcxpcapngtool"} \subseteq installed
       /\ capFiles # {} \/ siblings # {}
       /\ WordlistPaths \subseteq wordlistFiles
  /\ (pc = "exited" /\ exitAt = "validation") =>
       exitCode = (IF {"hashcat", "hcxdumptool"} \subseteq installed
                      /\ capFiles = {} /\ siblings = {} THEN 0 ELSE 1)
  /\ \E n \in 0..4 :
       phases = SubSeq(<<"validation", "benchmark", "combine", "crack">>, 1, n)

\* C4, as it is written: every file named on the command line of a session
\* that was started (wordlist, rule file, merged hash file) was checked or
\* created earlier in the same run.
C4_ExistsBeforeUse ==
  \A k \in DOMAIN launched : Command(launched[k]).files \subseteq established

\* C5, as it is written: after the merge, combined.22000 holds one line per
\* <stem>.22000 file of the capture directory, the stripped first line of that
\* file, and nothing else: no blank line, no line of an earlier merged file.
C5_MergedExactly ==
  pc \in AfterMergePcs =>
    /\ combinedFile.exists
    /\ \E order \in Orders(DOMAIN hashFiles) :
         combinedFile.lines = [k \in DOMAIN order |-> Strip(hashFiles[order[k]])]
    /\ \A k \in DOMAIN combinedFile.lines : combinedFile.lines[k] # << >>

\* C6, as it is written: when the cache file exists at the call, no benchmark
\* subprocess and no spinner thread is started and the file is left as it is;
\* and over all runs the benchmark completes successfully at most once.
C6_CacheUsed ==
  /\ cacheAtCall \notin {<<"not called">>, NoFile} =>
       /\ benchStarts = 0
       /\ spinner_thread = "None"
       /\ cacheFile = cacheAtCall
  /\ benchDone <= 1

\* C7: the spinner thread is alive only inside run_hashcat_benchmark and only
\* next to the benchmark subprocess; once the function has returned the thread
\* has ended or was never started, the benchmark subprocess has been waited
\* for, and, on every path through the try block, the event is set.
C7_SpinnerJoined ==
  /\ spinner_thread = "alive" =>
       /\ pc \in BenchPcs
       /\ DOMAIN procs \subseteq {BenchId}
  /\ BenchId \in DOMAIN procs => pc \in BenchPcs
  /\ (pc \in AfterBenchPcs \/ (pc = "exited" /\ exitAt # "validation")) =>
       /\ spinner_thread # "alive"
       /\ BenchId \notin DOMAIN procs
       /\ cacheAtCall \in {NoFile, << >>} => stop_spinner

\* C7, witness: the function has returned through the except and finally
\* blocks after the benchmark subprocess was started and then terminated; the
\* thread has ended.
C7_ReturnedAfterException ==
  /\ pc = "convert"
  /\ benchStarts = 1
  /\ returncode = {RcTerminated}
  /\ message = "An unexpected error occurred."
  /\ spinner_thread = "finished"
  /\ stop_spinner

\* C8, as the code has it: a .cap file whose .22000 file existed at the start
\* of the run is not converted, no .cap file is converted twice, and when the
\* loop is over every other .cap file was converted once; so a later run
\* converts again exactly the .cap files whose .22000 file is still missing,
\* which a converter that ended with code 0 need not have written, and none
\* when every .cap file has its .22000 file.
C8_SkipIfPresent ==
  /\ \A c \in Stems :
       /\ convLaunched[c] <= 1
       /\ convLaunched[c] = 1 => c \in capFiles \ siblings
  /\ (pc \in AfterMergePcs \/ (pc = "exited" /\ exitAt \in {"merge", "end"})) =>
       \A c \in capFiles \ siblings : convLaunched[c] = 1
  /\ capFiles \subseteq siblings => \A c \in Stems : convLaunched[c] = 0

\* C8, as it is written: skip-if-present, each other .cap file converted once,
\* and a run that follows a run whose conversions all succeeded starts no
\* conversion.
C8_SecondRunConvertsNothing ==
  /\ C8_SkipIfPresent
  /\ prevConvOk => \A c \in Stems : convLaunched[c] = 0

\* C8, witness: in a run that follows a run whose conversions all succeeded,
\* a.cap is converted again because a.22000 is still missing.
C8_ConvertedAgain ==
  /\ prevConvOk
  /\ "a" \in capFiles \ siblings
  /\ convLaunched["a"] = 1
  /\ pc = "conv_wait"

\* C9, as it is written: the program and a subprocess never wait for each
\* other: until the run has exited, the program, the spinner thread or a
\* subprocess can take a step.
C9_NoMutualWait == pc = "exited" \/ ENABLED Next

\* C10, as it is written: a session is started only when combined.22000
\* holds a non-empty hash; when the .22000 files yield none, the run ends at
\* the merge with code 0, no session started.
C10_NonEmptyHash ==
  /\ launched # << >> =>
       \E k \in DOMAIN combinedFile.lines : combinedFile.lines[k] # << >>
  /\ (pc = "exited" /\ exitAt = "merge") => (exitCode = 0 /\ launched = << >>)

====
